---- MODULE Spec2Model ----
(***************************************************************************)
(* CardioMap GIS helper tools: the Name Reconciler (public/check_names.py),*)
(* the Nested Path Extractor (extract_nested_values.py) and the Schema     *)
(* Analyzer (geojson_structure_analyzer.py).                               *)
(*                                                                         *)
(* Python strings are modelled as sequences of one-character strings, so   *)
(* that str.replace and str.split work on characters.  JSON values are     *)
(* tagged records [t, v]; a mapping keeps its entries as a sequence of     *)
(* <<key, value>> pairs with distinct keys, in document order, as a Python *)
(* dict does.                                                              *)
(***************************************************************************)
EXTENDS Integers, Sequences, FiniteSets, TLC

VARIABLES
    pc,               \* position of the running tool
    argv_len,         \* len(sys.argv) of check_names.py
    exit_status,      \* "running", "ok", "fail" (sys.exit(1)) or "crash" (traceback)
    geojson_file,     \* what the GeoJSON path holds on disk
    data,             \* the parsed document (self.data / geojson)
    name,             \* argument of normalize
    normalized,       \* normalize(name)
    renormalized,     \* normalize(normalize(name))
    csv_file,         \* what the CSV path holds on disk
    geojson_names,    \* set of normalized GeoJSON names
    csv_names,        \* set of normalized CSV names
    printed,          \* the three printed groups of check_names.py
    path,             \* the address given to the extractor
    values,           \* result of extract_values
    csv_out,          \* the CSV file of export_to_csv: [written, rows]
    run_result,       \* return value of NestedValueExtractor.run / GeoJSONAnalyzer.analyze
    analysis,         \* GeoJSONAnalyzer.analysis
    report,           \* the markdown report of generate_markdown
    coords,           \* argument of _count_coordinates
    coord_count,      \* its result
    obj,              \* argument of get_nested_value
    resolved,         \* its result
    aggregates,       \* the four dicts analyze_properties fills, lines 73-76
    visited,          \* features the loop of line 78 has gone through
    available_paths   \* result of analyze_available_paths

vars == <<pc, argv_len, exit_status, geojson_file, data, name, normalized, renormalized,
          csv_file, geojson_names, csv_names, printed, path, values, csv_out,
          run_result, analysis, report, coords, coord_count, obj, resolved,
          aggregates, visited, available_paths>>

normalizeVars == <<name, normalized, renormalized>>
checkNamesVars == <<argv_len, csv_file, geojson_names, csv_names, printed>>
extractorVars == <<path, values, csv_out>>
analyzerVars == <<analysis, report>>
countVars == <<coords, coord_count>>
resolveVars == <<obj, resolved>>
traversalVars == <<aggregates, visited>>
pathsVars == <<available_paths>>
fileVars == <<geojson_file, data, run_result>>

Unused == "unused"
\* no CSV file has been written
NoCsv == [written |-> FALSE, rows |-> <<>>]

----------------------------------------------------------------------------
(* Python strings *)

Province == <<" ", "P", "r", "o", "v", "i", "n", "c", "e">>
County == <<" ", "C", "o", "u", "n", "t", "y">>

\* the characters str.isspace() accepts, among those the model draws from
Whitespace == {" ", "\t", "\n"}

Drop(s, n) == SubSeq(s, n + 1, Len(s))

StartsWith(s, old) ==
    /\ Len(old) <= Len(s)
    /\ SubSeq(s, 1, Len(old)) = old

\* str.replace(old, ""): left to right, non-overlapping occurrences
RECURSIVE Remove(_, _)
Remove(s, old) ==
    IF s = <<>> THEN <<>>
    ELSE IF StartsWith(s, old) THEN Remove(Drop(s, Len(old)), old)
    ELSE <<Head(s)>> \o Remove(Tail(s), old)

\* mutant of normalize: the trailing replace(" ", "") is forgotten
normalize_no_space_strip(s) == Remove(Remove(s, Province), County)

normalize(s) == Remove(Remove(Remove(s, Province), County), <<" ">>)

----------------------------------------------------------------------------
(* JSON values as json.load builds them *)

JNull == [t |-> "null", v |-> 0]                \* None
JBool(b) == [t |-> "bool", v |-> b]
JNum(n) == [t |-> "num", v |-> n]
JStr(s) == [t |-> "str", v |-> s]
JList(s) == [t |-> "list", v |-> s]
JMap(kv) == [t |-> "map", v |-> kv]             \* dict, entries in insertion order

\* a key that a document or feature does not have
Absent == [t |-> "absent", v |-> 0]
\* an exception leaving the function
Raised == [t |-> "raised", v |-> 0]

IsDict(x) == x.t = "map"
HasKey(m, k) == \E i \in 1..Len(m.v) : m.v[i][1] = k
Get(m, k) == m.v[CHOOSE i \in 1..Len(m.v) : m.v[i][1] = k][2]
Keys(m) == { m.v[i][1] : i \in 1..Len(m.v) }

\* dict.get(k, default); AttributeError when the receiver is no dict
DictGet(m, k, default) ==
    IF m = Raised \/ ~IsDict(m) THEN Raised
    ELSE IF HasKey(m, k) THEN Get(m, k) ELSE default

\* feature.get('properties', {}) on a feature record
FeatureProperties(feature) ==
    IF feature.properties = Absent THEN JMap(<<>>) ELSE feature.properties

Range(s) == { s[i] : i \in 1..Len(s) }

SeqsUpTo(S, n) == UNION { [1..k -> S] : k \in 0..n }

----------------------------------------------------------------------------
(* Inputs of normalize: concatenations of up to MaxPieces pieces *)

MaxPieces == 3

NamePieces ==
    { <<" ">>, <<"\t">>, <<"\n">>, <<"A">>, Province, County,
      <<" ", "C", "o", "u", "n">>, <<"t", "y">>,
      <<" ", "P", "r", "o", "v">>, <<"i", "n", "c", "e">> }

RECURSIVE Flatten(_)
Flatten(ss) == IF ss = <<>> THEN <<>> ELSE Head(ss) \o Flatten(Tail(ss))

NameInputs ==
    UNION { { Flatten(t) : t \in [1..n -> NamePieces] } : n \in 0..MaxPieces }

\* variables of the tools a specification does not run
NormalizeIdle == name = Unused /\ normalized = Unused /\ renormalized = Unused
CheckNamesIdle ==
    /\ argv_len = Unused /\ csv_file = Unused
    /\ geojson_names = Unused /\ csv_names = Unused /\ printed = Unused
ExtractorIdle == path = Unused /\ values = Unused /\ csv_out = Unused
AnalyzerIdle == analysis = Unused /\ report = Unused
CountIdle == coords = Unused /\ coord_count = Unused
ResolveIdle == obj = Unused /\ resolved = Unused
TraversalIdle == aggregates = Unused /\ visited = Unused
PathsIdle == available_paths = Unused
FileIdle == geojson_file = Unused /\ data = Unused /\ run_result = Unused

InitNormalize ==
    /\ pc = "normalize"
    /\ exit_status = "running"
    /\ name \in NameInputs
    /\ normalized = Unused
    /\ renormalized = Unused
    /\ CheckNamesIdle /\ ExtractorIdle /\ AnalyzerIdle /\ CountIdle /\ ResolveIdle
    /\ FileIdle /\ TraversalIdle /\ PathsIdle

Normalize ==
    /\ pc = "normalize"
    /\ normalized' = normalize(name)
    /\ pc' = "normalize_again"
    /\ UNCHANGED <<exit_status, name, renormalized, checkNamesVars, traversalVars, pathsVars, extractorVars,
                   analyzerVars, countVars, resolveVars, fileVars>>

NormalizeAgain ==
    /\ pc = "normalize_again"
    /\ renormalized' = normalize(normalized)
    /\ pc' = "normalized_twice"
    /\ UNCHANGED <<exit_status, name, normalized, checkNamesVars, traversalVars, pathsVars, extractorVars,
                   analyzerVars, countVars, resolveVars, fileVars>>

NextNormalize == Normalize \/ NormalizeAgain

SpecNormalize == InitNormalize /\ [][NextNormalize]_vars

----------------------------------------------------------------------------
(* Claims about normalize *)

HasWhitespace(s) == \E i \in 1..Len(s) : s[i] \in Whitespace

RECURSIVE StripWhitespace(_)
StripWhitespace(s) ==
    IF s = <<>> THEN <<>>
    ELSE IF Head(s) \in Whitespace THEN StripWhitespace(Tail(s))
    ELSE <<Head(s)>> \o StripWhitespace(Tail(s))

\* C7: normalize(s) contains no whitespace character of any kind, and equals
\* s with " Province" and " County" removed and then every remaining
\* whitespace character removed.
C7_NormalizeRemovesAllWhitespace ==
    pc # "normalize" =>
        /\ ~HasWhitespace(normalized)
        /\ normalized = StripWhitespace(Remove(Remove(name, Province), County))

\* C8: normalize is idempotent: normalize(normalize(s)) = normalize(s).
C8_NormalizeIdempotent ==
    pc = "normalized_twice" => renormalized = normalized

\* a name in which removing " Province" creates a new " County"
C8_Witness ==
    /\ pc = "normalized_twice"
    /\ name = <<" ", "C", "o", "u", "n">> \o Province \o <<"t", "y">>
    /\ normalized = <<>>

----------------------------------------------------------------------------
(* Documents on disk *)

MaxFeatures == 2
MaxRows == 2
MaxAnalyzerFeatures == 3

\* a file that open() or json.load() rejects
MissingFile == [status |-> "missing"]            \* FileNotFoundError
UnreadableFile == [status |-> "unreadable"]      \* PermissionError
InvalidJsonFile == [status |-> "invalid_json"]   \* json.JSONDecodeError
BadFiles == {MissingFile, UnreadableFile, InvalidJsonFile}
JsonFile(doc) == [status |-> "ok", doc |-> doc]

\* a FeatureCollection: its other top-level keys, and its "features" entry
\* (a JList of features, or Absent)
Document(has_type, features) == [has_type |-> has_type, features |-> features]
Feature(properties, geometry) == [properties |-> properties, geometry |-> geometry]

HasFeatures(doc) == doc.features # Absent
\* "not self.data": an empty dict is falsy
IsEmptyDict(doc) == ~doc.has_type /\ ~HasFeatures(doc)

----------------------------------------------------------------------------
(* Name Reconciler: public/check_names.py *)

Tags == <<"t", "a", "g", "s">>
NameEn == <<"n", "a", "m", "e", ":", "e", "n">>

RawNames ==
    { <<"A", " ", "B">> \o Province, <<"A", " ", "B">>, <<"C">> \o County, <<"a">> }

NamedProperties(n) == JMap(<< <<Tags, JMap(<< <<NameEn, JStr(n)>> >>)>> >>)

NameFeatures ==
    { Feature(NamedProperties(n), Absent) : n \in RawNames }
        \cup { Feature(Absent, Absent),
               Feature(JMap(<<>>), Absent),
               Feature(JNull, Absent) }

NameDocuments ==
    { Document(TRUE, JList(fs)) : fs \in SeqsUpTo(NameFeatures, MaxFeatures) }
        \cup { Document(TRUE, Absent) }

CsvFiles ==
    { [status |-> "missing", has_name_column |-> FALSE, rows |-> <<>>] }
        \cup { [status |-> "ok", has_name_column |-> h, rows |-> rs] :
                 h \in BOOLEAN, rs \in SeqsUpTo(RawNames, MaxRows) }

\* feature.get("properties", {}).get("tags", {}).get("name:en", "")
FeatureName(feature) ==
    DictGet(DictGet(FeatureProperties(feature), Tags, JMap(<<>>)), NameEn, JStr(<<>>))

\* the loop of lines 19-21: the set of normalized names, unless a feature
\* raises (properties or tags that are no dict, a name that is no string)
RECURSIVE GeojsonNames(_, _)
GeojsonNames(features, names) ==
    IF features = <<>> THEN [raised |-> FALSE, names |-> names]
    ELSE LET n == FeatureName(Head(features))
         IN IF n = Raised \/ n.t # "str" THEN [raised |-> TRUE, names |-> names]
            ELSE GeojsonNames(Tail(features), names \cup {normalize(n.v)})

\* the loop of lines 27-28
CsvNames(rows) == { normalize(rows[i]) : i \in 1..Len(rows) }

\* code point order of the characters the names are made of
CodePointOrder ==
    <<"\t", "\n", " ", ":", "A", "B", "C", "P", "a", "c", "e", "g", "i", "m", "n",
      "o", "r", "s", "t", "u", "v", "y">>
Ord(c) == CHOOSE i \in 1..Len(CodePointOrder) : CodePointOrder[i] = c

RECURSIVE StrLess(_, _)
StrLess(a, b) ==
    IF b = <<>> THEN FALSE
    ELSE IF a = <<>> THEN TRUE
    ELSE IF Head(a) = Head(b) THEN StrLess(Tail(a), Tail(b))
    ELSE Ord(Head(a)) < Ord(Head(b))

\* sorted(S) of a set of strings
RECURSIVE Sorted(_)
Sorted(S) ==
    IF S = {} THEN <<>>
    ELSE LET m == CHOOSE x \in S : \A y \in S : x = y \/ StrLess(x, y)
         IN <<m>> \o Sorted(S \ {m})

\* mutant of OnlyIn: the other set is not subtracted
OnlyIn_no_difference(A, B) == A

OnlyIn(A, B) == A \ B
InBoth(A, B) == A \cap B

InitCheckNames ==
    /\ pc = "args"
    /\ exit_status = "running"
    /\ argv_len \in {2, 3}
    /\ geojson_file \in BadFiles \cup { JsonFile(d) : d \in NameDocuments }
    /\ csv_file \in CsvFiles
    /\ data = Unused
    /\ geojson_names = {}
    /\ csv_names = {}
    /\ printed = <<>>
    /\ run_result = Unused
    /\ NormalizeIdle /\ TraversalIdle /\ PathsIdle /\ ExtractorIdle /\ AnalyzerIdle /\ CountIdle /\ ResolveIdle

\* lines 8-10
CheckArgs ==
    /\ pc = "args"
    /\ IF argv_len # 3
       THEN pc' = "exit" /\ exit_status' = "fail"
       ELSE pc' = "load_geojson" /\ UNCHANGED exit_status
    /\ UNCHANGED <<fileVars, checkNamesVars, normalizeVars, traversalVars, pathsVars, extractorVars,
                   analyzerVars, countVars, resolveVars>>

\* lines 15-21: no exception is handled
LoadGeojsonNames ==
    /\ pc = "load_geojson"
    /\ IF geojson_file.status # "ok"
       THEN /\ pc' = "exit" /\ exit_status' = "crash"
            /\ UNCHANGED <<data, geojson_names>>
       ELSE /\ data' = geojson_file.doc
            /\ IF ~HasFeatures(geojson_file.doc)                \* KeyError
               THEN pc' = "exit" /\ exit_status' = "crash" /\ UNCHANGED geojson_names
               ELSE LET r == GeojsonNames(geojson_file.doc.features.v, {})
                    IN IF r.raised
                       THEN /\ pc' = "exit" /\ exit_status' = "crash"
                            /\ UNCHANGED geojson_names
                       ELSE /\ pc' = "load_csv" /\ geojson_names' = r.names
                            /\ UNCHANGED exit_status
    /\ UNCHANGED <<geojson_file, run_result, argv_len, csv_file, csv_names, printed,
                   normalizeVars, traversalVars, pathsVars, extractorVars, analyzerVars, countVars, resolveVars>>

\* lines 23-28
LoadCsvNames ==
    /\ pc = "load_csv"
    /\ IF \/ csv_file.status # "ok"
          \/ (~csv_file.has_name_column /\ csv_file.rows # <<>>)   \* KeyError
       THEN pc' = "exit" /\ exit_status' = "crash" /\ UNCHANGED csv_names
       ELSE pc' = "compare" /\ csv_names' = CsvNames(csv_file.rows)
            /\ UNCHANGED exit_status
    /\ UNCHANGED <<fileVars, argv_len, csv_file, geojson_names, printed,
                   normalizeVars, traversalVars, pathsVars, extractorVars, analyzerVars, countVars, resolveVars>>

\* lines 30-41
Compare ==
    /\ pc = "compare"
    /\ printed' = [geojson_not_in_csv |-> Sorted(OnlyIn(geojson_names, csv_names)),
                   csv_not_in_geojson |-> Sorted(OnlyIn(csv_names, geojson_names)),
                   in_both |-> Sorted(InBoth(geojson_names, csv_names))]
    /\ pc' = "exit"
    /\ exit_status' = "ok"
    /\ UNCHANGED <<fileVars, argv_len, csv_file, geojson_names, csv_names,
                   normalizeVars, traversalVars, pathsVars, extractorVars, analyzerVars, countVars, resolveVars>>

NextCheckNames == CheckArgs \/ LoadGeojsonNames \/ LoadCsvNames \/ Compare

SpecCheckNames == InitCheckNames /\ [][NextCheckNames]_vars

----------------------------------------------------------------------------
(* Claims about the Name Reconciler *)

\* C6: the three printed groups are pairwise disjoint and their union is
\* the union of the GeoJSON name set and the CSV name set.
C6_PartitionComplete ==
    (pc = "exit" /\ exit_status = "ok") =>
        LET G == Range(printed.geojson_not_in_csv)
            C == Range(printed.csv_not_in_geojson)
            B == Range(printed.in_both)
        IN /\ G \cap C = {} /\ G \cap B = {} /\ C \cap B = {}
           /\ G \cup C \cup B = geojson_names \cup csv_names

\* a run in which all three groups are non-empty
C6_Witness ==
    /\ pc = "exit" /\ exit_status = "ok"
    /\ printed.geojson_not_in_csv # <<>>
    /\ printed.csv_not_in_geojson # <<>>
    /\ printed.in_both # <<>>

----------------------------------------------------------------------------
(* str() of a JSON value *)

DigitChars == <<"0", "1", "2", "3", "4", "5", "6", "7", "8", "9">>

RECURSIVE Digits(_)
Digits(n) ==
    IF n < 10 THEN <<DigitChars[n + 1]>>
    ELSE Digits(n \div 10) \o <<DigitChars[(n % 10) + 1]>>

IntStr(n) == IF n < 0 THEN <<"-">> \o Digits(-n) ELSE Digits(n)

RECURSIVE PyStr(_)
RECURSIVE PyRepr(_)
RECURSIVE ReprElements(_)
RECURSIVE ReprItems(_)

\* ", ".join(repr(e) for e in elements)
ReprElements(es) ==
    IF es = <<>> THEN <<>>
    ELSE IF Len(es) = 1 THEN PyRepr(es[1])
    ELSE PyRepr(es[1]) \o <<",", " ">> \o ReprElements(Tail(es))

\* ", ".join(repr(k) + ": " + repr(v) for k, v in items)
ReprItems(kv) ==
    IF kv = <<>> THEN <<>>
    ELSE LET item == PyRepr(JStr(kv[1][1])) \o <<":", " ">> \o PyRepr(kv[1][2])
         IN IF Len(kv) = 1 THEN item
            ELSE item \o <<",", " ">> \o ReprItems(Tail(kv))

\* repr(): as str(), but a string is quoted
PyRepr(x) == IF x.t = "str" THEN <<"'">> \o x.v \o <<"'">> ELSE PyStr(x)

PyStr(x) ==
    CASE x.t = "str" -> x.v
      [] x.t = "num" -> IntStr(x.v)
      [] x.t = "bool" -> IF x.v THEN <<"T", "r", "u", "e">>
                         ELSE <<"F", "a", "l", "s", "e">>
      [] x.t = "null" -> <<"N", "o", "n", "e">>
      [] x.t = "list" -> <<"[">> \o ReprElements(x.v) \o <<"]">>
      [] x.t = "map" -> <<"{">> \o ReprItems(x.v) \o <<"}">>

----------------------------------------------------------------------------
(* Nested Path Extractor: address resolution *)

\* path.split('.'), scanning the characters; the segment being read is cur
RECURSIVE SplitFrom(_, _)
SplitFrom(s, cur) ==
    IF s = <<>> THEN <<cur>>
    ELSE IF Head(s) = "." THEN <<cur>> \o SplitFrom(Tail(s), <<>>)
    ELSE SplitFrom(Tail(s), Append(cur, Head(s)))

\* mutant of Split: empty segments are dropped, as str.split() without a
\* separator does
Split_drop_empty(s) == SelectSeq(SplitFrom(s, <<>>), LAMBDA seg : seg # <<>>)

Split(s) == SplitFrom(s, <<>>)

\* the loop of lines 50-56; None is JNull
RECURSIVE Walk(_, _)
Walk(current, keys) ==
    IF keys = <<>> THEN current
    ELSE IF IsDict(current) /\ HasKey(current, Head(keys))
         THEN Walk(Get(current, Head(keys)), Tail(keys))
         ELSE JNull

get_nested_value(o, p) == Walk(o, Split(p))

----------------------------------------------------------------------------
(* Inputs of get_nested_value *)

MaxPathLen == 3
MaxDepth == 3

PathAlphabet == {"a", "b", "."}
Paths == SeqsUpTo(PathAlphabet, MaxPathLen)

ResolveKeys == { <<"a">>, <<"b">>, <<>> }

ResolveLeaves ==
    { JNull, JBool(FALSE), JNum(0), JStr(<<>>), JStr(<<"a">>),
      JList(<<JMap(<< <<<<"a">>, JNum(1)>> >>)>>) }

\* a key holding a literal dot next to the nested entry it could be taken for
DottedKeyMaps ==
    { JMap(<< <<<<"a", ".", "b">>, JNum(1)>>,
              <<<<"a">>, JMap(<< <<<<"b">>, v>> >>)>> >>) : v \in {JNull, JNum(2)} }
        \cup { JMap(<< <<<<"a", ".", "b">>, JNum(1)>> >>) }

RECURSIVE ResolveValues(_)
ResolveValues(depth) ==
    IF depth = 0 THEN ResolveLeaves
    ELSE ResolveLeaves \cup {JMap(<<>>)} \cup DottedKeyMaps
            \cup { JMap(<< <<k, v>> >>) : k \in ResolveKeys, v \in ResolveValues(depth - 1) }

InitResolve ==
    /\ pc = "resolve"
    /\ exit_status = "running"
    /\ obj \in ResolveValues(MaxDepth)
    /\ path \in Paths
    /\ resolved = Unused
    /\ values = Unused /\ csv_out = Unused
    /\ NormalizeIdle /\ TraversalIdle /\ PathsIdle /\ CheckNamesIdle /\ AnalyzerIdle /\ CountIdle /\ FileIdle

Resolve ==
    /\ pc = "resolve"
    /\ resolved' = get_nested_value(obj, path)
    /\ pc' = "resolved"
    /\ UNCHANGED <<exit_status, obj, extractorVars, normalizeVars, traversalVars, pathsVars, checkNamesVars,
                   analyzerVars, countVars, fileVars>>

NextResolve == Resolve

SpecResolve == InitResolve /\ [][NextResolve]_vars

----------------------------------------------------------------------------
(* Claim about address resolution *)

DotPositions(p) == { i \in 1..Len(p) : p[i] = "." }
SegmentCount(p) == Cardinality(DotPositions(p)) + 1
\* position of the k-th dot of p
DotAt(p, k) ==
    CHOOSE d \in DotPositions(p) :
        Cardinality({ e \in DotPositions(p) : e < d }) = k - 1
\* the k-th segment of p: the characters between the (k-1)-th and the k-th dot
Segment(p, k) ==
    SubSeq(p,
           IF k = 1 THEN 1 ELSE DotAt(p, k - 1) + 1,
           IF k = SegmentCount(p) THEN Len(p) ELSE DotAt(p, k) - 1)

\* the value reached after k segments, Absent once the descent has failed
Reached(o, p) ==
    LET cur[k \in 0..SegmentCount(p)] ==
            IF k = 0 THEN o
            ELSE IF IsDict(cur[k - 1]) /\ HasKey(cur[k - 1], Segment(p, k))
                 THEN Get(cur[k - 1], Segment(p, k))
                 ELSE Absent
    IN cur

\* C2: get_nested_value never raises; it returns the value reached by
\* descending segment by segment when every current value is a mapping that
\* holds the segment, and None as soon as one is not.
C2_ResolutionFollowsDescent ==
    pc = "resolved" =>
        /\ resolved # Raised
        /\ LET n == SegmentCount(path)
               cur == Reached(obj, path)
           IN IF \A k \in 1..n : cur[k] # Absent
              THEN resolved = cur[n]
              ELSE resolved = JNull

\* a two-segment address with an empty segment resolving on nested mappings
C2_Witness ==
    /\ pc = "resolved"
    /\ path = <<"a", ".">>
    /\ obj = JMap(<< <<<<"a">>, JMap(<< <<<<>>, JStr(<<"a">>)>> >>)>> >>)
    /\ resolved = JStr(<<"a">>)

\* an address that fails on a non-mapping intermediate value
C2_WitnessNotFound ==
    /\ pc = "resolved"
    /\ path = <<"a", ".", "b">>
    /\ obj = JMap(<< <<<<"a">>, JStr(<<"a">>)>> >>)
    /\ resolved = JNull

----------------------------------------------------------------------------
(* Nested Path Extractor: run *)

ValueHeader == <<"v", "a", "l", "u", "e">>

\* the properties entry of a feature: Absent when the feature has none
ExtractorProperties ==
    { Absent, JNull, JMap(<<>>),
      JMap(<< <<<<"a">>, JStr(<<"x">>)>> >>),
      JMap(<< <<<<"a">>, JStr(<<>>)>> >>),
      JMap(<< <<<<"a">>, JMap(<< <<<<"b">>, JNum(12)>> >>)>> >>),
      JMap(<< <<<<"b">>, JNull>> >>) }

ExtractorFeatures == { Feature(p, Absent) : p \in ExtractorProperties }

ExtractorDocuments ==
    { Document(TRUE, JList(fs)) : fs \in SeqsUpTo(ExtractorFeatures, MaxFeatures) }
        \cup { Document(TRUE, Absent), Document(FALSE, Absent) }

\* mutant of ExtractLoop: a feature without the value gets no row
RECURSIVE ExtractLoop_skip_missing(_, _)
ExtractLoop_skip_missing(features, p) ==
    IF features = <<>> THEN <<>>
    ELSE LET value == get_nested_value(FeatureProperties(Head(features)), p)
         IN (IF value # JNull THEN <<PyStr(value)>> ELSE <<>>)
                \o ExtractLoop_skip_missing(Tail(features), p)

\* the loop of lines 80-89
RECURSIVE ExtractLoop(_, _)
ExtractLoop(features, p) ==
    IF features = <<>> THEN <<>>
    ELSE LET value == get_nested_value(FeatureProperties(Head(features)), p)
         IN <<IF value # JNull THEN PyStr(value) ELSE <<>>>>
                \o ExtractLoop(Tail(features), p)

extract_values(doc, p) ==
    IF IsEmptyDict(doc) \/ ~HasFeatures(doc) THEN <<>>
    ELSE ExtractLoop(doc.features.v, p)

\* the file export_to_csv writes: the header row, then one row per value
CsvRows(vs) == << <<ValueHeader>> >> \o [i \in 1..Len(vs) |-> <<vs[i]>>]
CsvFile(vs) == [written |-> TRUE, rows |-> CsvRows(vs)]

InitExtractor ==
    /\ pc = "load"
    /\ exit_status = "running"
    /\ geojson_file \in BadFiles \cup { JsonFile(d) : d \in ExtractorDocuments }
    /\ path \in Paths
    /\ data = Unused
    /\ values = <<>>
    /\ csv_out = NoCsv
    /\ run_result = Unused
    /\ NormalizeIdle /\ TraversalIdle /\ PathsIdle /\ CheckNamesIdle /\ AnalyzerIdle /\ CountIdle /\ ResolveIdle

\* run, lines 184-185, with load_geojson, lines 22-33
ExtractorLoad ==
    /\ pc = "load"
    /\ CASE geojson_file.status = "ok" ->
              /\ data' = geojson_file.doc
              /\ pc' = "extract"
              /\ UNCHANGED <<run_result, exit_status>>
         [] geojson_file.status \in {"missing", "invalid_json"} ->
              /\ run_result' = FALSE
              /\ pc' = "main"
              /\ UNCHANGED <<data, exit_status>>
         [] OTHER ->                       \* an exception load_geojson does not catch
              /\ exit_status' = "crash"
              /\ pc' = "exit"
              /\ UNCHANGED <<data, run_result>>
    /\ UNCHANGED <<geojson_file, extractorVars, normalizeVars, traversalVars, pathsVars, checkNamesVars,
                   analyzerVars, countVars, resolveVars>>

\* run, lines 200-205, with extract_values, lines 60-91
ExtractValues ==
    /\ pc = "extract"
    /\ values' = extract_values(data, path)
    /\ IF values' = <<>>
       THEN run_result' = FALSE /\ pc' = "main"
       ELSE pc' = "export" /\ UNCHANGED run_result
    /\ UNCHANGED <<exit_status, geojson_file, data, path, csv_out, normalizeVars, traversalVars, pathsVars,
                   checkNamesVars, analyzerVars, countVars, resolveVars>>

\* run, lines 207-225, with export_to_csv, lines 93-122
ExportToCsv ==
    /\ pc = "export"
    /\ csv_out' = CsvFile(values)
    /\ run_result' = TRUE
    /\ pc' = "main"
    /\ UNCHANGED <<exit_status, geojson_file, data, path, values, normalizeVars, traversalVars, pathsVars,
                   checkNamesVars, analyzerVars, countVars, resolveVars>>

\* main, lines 240-244
ExtractorMain ==
    /\ pc = "main"
    /\ exit_status' = IF run_result THEN "ok" ELSE "fail"
    /\ pc' = "exit"
    /\ UNCHANGED <<fileVars, extractorVars, normalizeVars, traversalVars, pathsVars, checkNamesVars,
                   analyzerVars, countVars, resolveVars>>

NextExtractor == ExtractorLoad \/ ExtractValues \/ ExportToCsv \/ ExtractorMain

SpecExtractor == InitExtractor /\ [][NextExtractor]_vars

----------------------------------------------------------------------------
(* Claims about the Nested Path Extractor *)

Loaded == pc = "exit" /\ geojson_file.status = "ok"
FeatureCount == IF HasFeatures(data) THEN Len(data.features.v) ELSE 0

\* the row the extractor owes feature i: the stringified value at the
\* address, or the empty string
OwedRow(i) ==
    LET value == get_nested_value(FeatureProperties(data.features.v[i]), path)
    IN <<IF value = JNull THEN <<>> ELSE PyStr(value)>>

\* C1 as stated: for every loaded FeatureCollection, zero features included,
\* the table run() emits holds the 'value' header and then exactly one row
\* per feature.
C1_RowPerFeature ==
    (Loaded /\ HasFeatures(data)) =>
        /\ csv_out.written
        /\ Len(csv_out.rows) = FeatureCount + 1
        /\ csv_out.rows[1] = <<ValueHeader>>

\* C1 amended: with at least one feature the table holds the header and then
\* exactly one row per feature, in feature order, whatever the address
\* resolves on; with zero features run() writes no table and returns False.
C1_RowPerFeatureWhenNonEmpty ==
    (Loaded /\ HasFeatures(data)) =>
        IF FeatureCount >= 1
        THEN /\ csv_out.written
             /\ Len(csv_out.rows) = FeatureCount + 1
             /\ csv_out.rows[1] = <<ValueHeader>>
             /\ \A i \in 1..FeatureCount : csv_out.rows[i + 1] = OwedRow(i)
             /\ run_result = TRUE
        ELSE /\ ~csv_out.written
             /\ run_result = FALSE

\* two features, the address resolving on the second only
C1_Witness ==
    /\ Loaded /\ HasFeatures(data) /\ FeatureCount = 2
    /\ path = <<"a", ".", "b">>
    /\ csv_out.written
    /\ csv_out.rows = << <<ValueHeader>>, <<<<>>>>, <<<<"1", "2">>>> >>

\* C3: when the document loads with at least one feature and the address
\* resolves on none of them, run() returns False and main exits non-zero.
C3_NoValuesFoundIsFailure ==
    (/\ Loaded /\ FeatureCount >= 1
     /\ \A i \in 1..FeatureCount : values[i] = <<>>) =>
        (run_result = FALSE /\ exit_status = "fail")

\* C4: a missing, unreadable or malformed input file ends the run with a
\* message and a clean non-zero exit, never with an unhandled exception.
C4_LoadErrorsEndCleanly ==
    (pc = "exit" /\ argv_len # 2 /\ geojson_file.status # "ok") =>
        exit_status = "fail"

----------------------------------------------------------------------------
(* Schema Analyzer: property and geometry aggregation *)

\* a Python dict under construction: a sequence of <<key, value>> pairs
DHas(d, k) == \E i \in 1..Len(d) : d[i][1] = k
DGet(d, k) == d[CHOOSE i \in 1..Len(d) : d[i][1] = k][2]
DSet(d, k, x) ==
    IF DHas(d, k) THEN [i \in 1..Len(d) |-> IF d[i][1] = k THEN <<k, x>> ELSE d[i]]
    ELSE Append(d, <<k, x>>)
DKeys(d) == { d[i][1] : i \in 1..Len(d) }

\* type(value).__name__
TypeName(x) ==
    CASE x.t = "str" -> "str"
      [] x.t = "num" -> "int"
      [] x.t = "bool" -> "bool"
      [] x.t = "null" -> "NoneType"
      [] x.t = "list" -> "list"
      [] x.t = "map" -> "dict"

\* "Keep first 5 samples", line 96
SampleCap == 5

\* mutant of CountKey: the counter is set, not incremented
CountKey_no_increment(all_properties, key) == DSet(all_properties, key, 1)

\* lines 83-85
CountKey(all_properties, key) ==
    DSet(IF DHas(all_properties, key) THEN all_properties
         ELSE Append(all_properties, <<key, 0>>),
         key,
         (IF DHas(all_properties, key) THEN DGet(all_properties, key) ELSE 0) + 1)

\* lines 88-91
TrackType(property_types, key, x) ==
    DSet(property_types, key,
         (IF DHas(property_types, key) THEN DGet(property_types, key) ELSE {})
             \cup {TypeName(x)})

\* mutant of TrackSample: the length test of line 96 is missing
TrackSample_no_cap(property_values, key, x) ==
    DSet(property_values, key,
         Append(IF DHas(property_values, key) THEN DGet(property_values, key)
                ELSE <<>>,
                PyStr(x)))

\* lines 94-97
TrackSample(property_values, key, x) ==
    LET samples == IF DHas(property_values, key) THEN DGet(property_values, key)
                   ELSE <<>>
    IN DSet(property_values, key,
            IF Len(samples) < SampleCap THEN Append(samples, PyStr(x)) ELSE samples)

\* lines 100-102
TrackUnique(unique_values, key, x) ==
    DSet(unique_values, key,
         (IF DHas(unique_values, key) THEN DGet(unique_values, key) ELSE {})
             \cup {PyStr(x)})

\* the body of the loop of line 81, over the items of one properties dict
RECURSIVE ItemsLoop(_, _)
ItemsLoop(items, acc) ==
    IF items = <<>> THEN acc
    ELSE LET key == items[1][1]
             value == items[1][2]
         IN ItemsLoop(Tail(items),
                [all_properties |-> CountKey(acc.all_properties, key),
                 property_types |-> TrackType(acc.property_types, key, value),
                 property_values |-> TrackSample(acc.property_values, key, value),
                 unique_values |-> TrackUnique(acc.unique_values, key, value)])

\* the loop of line 78; properties that are no dict have no items():
\* AttributeError
RECURSIVE FeaturesLoop(_, _)
FeaturesLoop(features, acc) ==
    IF features = <<>> THEN [raised |-> FALSE, acc |-> acc]
    ELSE LET properties == FeatureProperties(Head(features))
         IN IF ~IsDict(properties) THEN [raised |-> TRUE, acc |-> acc]
            ELSE FeaturesLoop(Tail(features), ItemsLoop(properties.v, acc))

\* mutant of InsertByCount: an item goes before the items of equal count, so
\* ties come out in reverse encounter order
InsertByCount_ties_reversed(sorted, item) ==
    LET j == Cardinality({ i \in 1..Len(sorted) : sorted[i][2] > item[2] })
    IN SubSeq(sorted, 1, j) \o <<item>> \o SubSeq(sorted, j + 1, Len(sorted))

\* sorted(items, key=lambda x: x[1], reverse=True): stable, so equal counts
\* keep their order
InsertByCount(sorted, item) ==
    LET j == Cardinality({ i \in 1..Len(sorted) : sorted[i][2] >= item[2] })
    IN SubSeq(sorted, 1, j) \o <<item>> \o SubSeq(sorted, j + 1, Len(sorted))

RECURSIVE SortedByCount(_, _)
SortedByCount(items, sorted) ==
    IF items = <<>> THEN sorted
    ELSE SortedByCount(Tail(items), InsertByCount(sorted, Head(items)))

EmptyAggregates ==
    [all_properties |-> <<>>, property_types |-> <<>>,
     property_values |-> <<>>, unique_values |-> <<>>]

\* lines 104-109: self.analysis['properties']
PropertiesAnalysis(acc) ==
    [filled |-> TRUE,
     all_properties |-> SortedByCount(acc.all_properties, <<>>),
     property_types |-> acc.property_types,
     sample_values |-> acc.property_values,
     unique_value_counts |->
         [i \in 1..Len(acc.unique_values) |->
             <<acc.unique_values[i][1], Cardinality(acc.unique_values[i][2])>>]]

\* lines 135-141; isinstance(coords, (int, float)) holds of True and False
\* too, bool being a subclass of int
RECURSIVE SumCounts(_)
RECURSIVE count_coordinates(_)
count_coordinates(c) ==
    IF c.t \in {"num", "bool"} THEN 1
    ELSE IF c.t = "list" THEN SumCounts(c.v)
    ELSE 0

SumCounts(cs) ==
    IF cs = <<>> THEN 0 ELSE count_coordinates(Head(cs)) + SumCounts(Tail(cs))

\* truth value of a JSON value, as "if coords:" and "if geom_type:" take it
Truthy(x) ==
    CASE x.t = "null" -> FALSE
      [] x.t = "bool" -> x.v
      [] x.t = "num" -> x.v # 0
      [] OTHER -> x.v # <<>>

TypeKey == <<"t", "y", "p", "e">>
CoordinatesKey == <<"c", "o", "o", "r", "d", "i", "n", "a", "t", "e", "s">>

\* the loop of lines 119-129; a geometry that is no dict has no get():
\* AttributeError
RECURSIVE GeometryLoop(_, _)
GeometryLoop(features, acc) ==
    IF features = <<>> THEN [raised |-> FALSE, acc |-> acc]
    ELSE LET geometry == IF Head(features).geometry = Absent THEN JMap(<<>>)
                         ELSE Head(features).geometry
             geom_type == DictGet(geometry, TypeKey, JNull)
             c == DictGet(geometry, CoordinatesKey, JList(<<>>))
         IN IF ~IsDict(geometry) THEN [raised |-> TRUE, acc |-> acc]
            ELSE GeometryLoop(Tail(features),
                    [geometry_types |->
                         IF Truthy(geom_type)
                         THEN acc.geometry_types \cup {geom_type.v}
                         ELSE acc.geometry_types,
                     coordinate_counts |->
                         IF Truthy(c)
                         THEN Append(acc.coordinate_counts, count_coordinates(c))
                         ELSE acc.coordinate_counts])

RECURSIVE SumSeq(_)
SumSeq(ns) == IF ns = <<>> THEN 0 ELSE Head(ns) + SumSeq(Tail(ns))

----------------------------------------------------------------------------
(* Schema Analyzer: analyze and generate_markdown *)

Point == <<"P", "o", "i", "n", "t">>
Polygon == <<"P", "o", "l", "y", "g", "o", "n">>

Geometry(type, c) == JMap(<< <<TypeKey, JStr(type)>>, <<CoordinatesKey, c>> >>)

AnalyzerProperties ==
    { Absent, JNull, JMap(<<>>),
      JMap(<< <<<<"a">>, JNum(1)>> >>),
      JMap(<< <<<<"b">>, JStr(<<"x">>)>> >>),
      JMap(<< <<<<"a">>, JStr(<<"x">>)>>, <<<<"b">>, JNum(1)>> >>),
      JMap(<< <<<<"b">>, JNum(1)>>, <<<<"a">>, JNum(2)>> >>),
      JMap(<< <<<<"c">>, JNull>>, <<<<"a">>, JNum(1)>> >>) }

AnalyzerGeometries ==
    { JNull,
      Geometry(Point, JList(<<JNum(1), JNum(2)>>)),
      Geometry(Polygon, JList(<<JList(<<JList(<<JNum(0), JNum(0)>>),
                                        JList(<<JNum(1), JNum(0)>>)>>)>>)),
      Geometry(Point, JList(<<>>)),
      JMap(<<>>) }

AnalyzerFeatures ==
    { Feature(p, Absent) : p \in AnalyzerProperties }
        \cup { Feature(JMap(<<>>), g) : g \in AnalyzerGeometries }
        \cup { Feature(JMap(<< <<<<"a">>, JNum(1)>> >>),
                       Geometry(Point, JList(<<JNum(1), JNum(2)>>))) }

AnalyzerDocuments ==
    { Document(TRUE, JList(fs)) : fs \in SeqsUpTo(AnalyzerFeatures, MaxAnalyzerFeatures) }
        \cup { Document(TRUE, Absent), Document(FALSE, Absent) }

NoReport == [written |-> FALSE, sections |-> <<>>, property_rows |-> <<>>]

\* __init__, lines 20-27
InitialAnalysis ==
    [structure |-> [filled |-> FALSE],
     properties |-> [filled |-> FALSE],
     geometry_types |-> {},
     statistics |-> [filled |-> FALSE]]

InitAnalyzer ==
    /\ pc = "load"
    /\ exit_status = "running"
    /\ geojson_file \in BadFiles \cup { JsonFile(d) : d \in AnalyzerDocuments }
    /\ data = Unused
    /\ run_result = Unused
    /\ analysis = InitialAnalysis
    /\ report = NoReport
    /\ NormalizeIdle /\ TraversalIdle /\ PathsIdle /\ CheckNamesIdle /\ ExtractorIdle /\ CountIdle /\ ResolveIdle

\* analyze, lines 286-287, with load_geojson, lines 29-40
AnalyzerLoad ==
    /\ pc = "load"
    /\ CASE geojson_file.status = "ok" ->
              /\ data' = geojson_file.doc
              /\ pc' = "structure"
              /\ UNCHANGED <<run_result, exit_status>>
         [] geojson_file.status \in {"missing", "invalid_json"} ->
              /\ run_result' = FALSE
              /\ pc' = "main"
              /\ UNCHANGED <<data, exit_status>>
         [] OTHER ->                       \* an exception load_geojson does not catch
              /\ exit_status' = "crash"
              /\ pc' = "exit"
              /\ UNCHANGED <<data, run_result>>
    /\ UNCHANGED <<geojson_file, analyzerVars, normalizeVars, traversalVars, pathsVars, checkNamesVars,
                   extractorVars, countVars, resolveVars>>

\* analyze, lines 291-292: analyze_file_info and analyze_structure, lines 51-66
AnalyzeStructure ==
    /\ pc = "structure"
    /\ analysis' =
         IF IsEmptyDict(data) THEN analysis
         ELSE [analysis EXCEPT !.structure =
                  [filled |-> TRUE,
                   has_features |-> HasFeatures(data),
                   feature_count |-> IF HasFeatures(data) THEN Len(data.features.v)
                                     ELSE 0]]
    /\ pc' = "properties"
    /\ UNCHANGED <<exit_status, fileVars, report, normalizeVars, traversalVars, pathsVars, checkNamesVars,
                   extractorVars, countVars, resolveVars>>

\* analyze, line 293: analyze_properties, lines 68-109
AnalyzeProperties ==
    /\ pc = "properties"
    /\ IF IsEmptyDict(data) \/ ~HasFeatures(data)
       THEN pc' = "geometry" /\ UNCHANGED <<analysis, exit_status>>
       ELSE LET r == FeaturesLoop(data.features.v, EmptyAggregates)
            IN IF r.raised
               THEN pc' = "exit" /\ exit_status' = "crash" /\ UNCHANGED analysis
               ELSE /\ analysis' =
                        [analysis EXCEPT !.properties = PropertiesAnalysis(r.acc)]
                    /\ pc' = "geometry"
                    /\ UNCHANGED exit_status
    /\ UNCHANGED <<fileVars, report, normalizeVars, traversalVars, pathsVars, checkNamesVars,
                   extractorVars, countVars, resolveVars>>

\* analyze, lines 294-296: analyze_geometry, lines 111-133
AnalyzeGeometry ==
    /\ pc = "geometry"
    /\ IF IsEmptyDict(data) \/ ~HasFeatures(data)
       THEN /\ pc' = "main" /\ run_result' = TRUE
            /\ UNCHANGED <<analysis, exit_status>>
       ELSE LET r == GeometryLoop(data.features.v,
                        [geometry_types |-> {}, coordinate_counts |-> <<>>])
            IN IF r.raised
               THEN /\ pc' = "exit" /\ exit_status' = "crash"
                    /\ UNCHANGED <<analysis, run_result>>
               ELSE /\ analysis' =
                        [analysis EXCEPT
                            !.geometry_types = r.acc.geometry_types,
                            !.statistics =
                                [filled |-> TRUE,
                                 coordinate_sum |-> SumSeq(r.acc.coordinate_counts),
                                 coordinate_features |-> Len(r.acc.coordinate_counts),
                                 total_features |-> Len(data.features.v)]]
                    /\ pc' = "main" /\ run_result' = TRUE
                    /\ UNCHANGED exit_status
    /\ UNCHANGED <<geojson_file, data, report, normalizeVars, traversalVars, pathsVars, checkNamesVars,
                   extractorVars, countVars, resolveVars>>

\* the sections and notices generate_markdown appends, lines 151-276
ReportSections(a) ==
    <<"header", "file_information", "structure_overview", "top_level_keys">>
        \o (IF a.geometry_types # {} THEN <<"geometry_analysis">> ELSE <<>>)
        \o (IF a.properties.all_properties # <<>> THEN <<"properties_analysis">>
            ELSE <<>>)
        \o <<"recommendations", "data_quality_notes">>
        \o <<IF a.structure.feature_count = 0 THEN "no_features_found"
             ELSE "found_features">>
        \o <<IF a.properties.all_properties = <<>> THEN "no_properties_found"
             ELSE "found_properties">>
        \o <<IF a.geometry_types = {} THEN "no_geometry_types_found"
             ELSE "found_geometry_types">>

\* main, lines 308-317, with generate_markdown, lines 143-282
AnalyzerMain ==
    /\ pc = "main"
    /\ IF ~run_result
       THEN exit_status' = "fail" /\ UNCHANGED report
       ELSE IF ~analysis.structure.filled \/ ~analysis.properties.filled    \* KeyError
            THEN exit_status' = "crash" /\ UNCHANGED report
            ELSE /\ report' = [written |-> TRUE,
                               sections |-> ReportSections(analysis),
                               property_rows |-> analysis.properties.all_properties]
                 /\ exit_status' = "ok"
    /\ pc' = "exit"
    /\ UNCHANGED <<fileVars, analysis, normalizeVars, traversalVars, pathsVars, checkNamesVars,
                   extractorVars, countVars, resolveVars>>

NextAnalyzer ==
    AnalyzerLoad \/ AnalyzeStructure \/ AnalyzeProperties \/ AnalyzeGeometry
        \/ AnalyzerMain

SpecAnalyzer == InitAnalyzer /\ [][NextAnalyzer]_vars

----------------------------------------------------------------------------
(* Claims about the Schema Analyzer *)

\* C5: on a loaded document whose feature count is 0 (an empty feature list,
\* or no feature list at all), analyze() and generate_markdown() complete and
\* the report carries the three "none found" notices.
C5_ZeroFeaturesStillReports ==
    (/\ pc = "exit" /\ geojson_file.status = "ok"
     /\ analysis.structure.filled /\ analysis.structure.feature_count = 0) =>
        /\ exit_status = "ok"
        /\ report.written
        /\ {"no_features_found", "no_properties_found", "no_geometry_types_found"}
               \subseteq Range(report.sections)

PropertiesAnalysed ==
    /\ pc \in {"geometry", "main", "exit"}
    /\ geojson_file.status = "ok"
    /\ analysis.properties.filled

\* the features whose properties mapping holds key k
FeaturesWith(k) ==
    { i \in 1..Len(data.features.v) : k \in Keys(FeatureProperties(data.features.v[i])) }

\* C10: after analyze_properties the reported occurrence count of each key is
\* the number of features whose properties hold it, the counts sum to the
\* number of (feature, key) pairs, and a key of no feature is not reported.
C10_OccurrenceCounts ==
    PropertiesAnalysed =>
        LET reported == analysis.properties.all_properties
            n == Len(data.features.v)
        IN /\ \A j \in 1..Len(reported) :
                  /\ reported[j][2] = Cardinality(FeaturesWith(reported[j][1]))
                  /\ reported[j][2] >= 1
           /\ \A j, l \in 1..Len(reported) : reported[j][1] = reported[l][1] => j = l
           /\ DKeys(reported) = UNION { Keys(FeatureProperties(data.features.v[i])) :
                                           i \in 1..n }
           /\ SumSeq([j \in 1..Len(reported) |-> reported[j][2]])
                 = Cardinality({ ik \in (1..n) \X DKeys(reported) :
                                    ik[1] \in FeaturesWith(ik[2]) })

\* three features, key a in two of them and key b in one
C10_Witness ==
    /\ PropertiesAnalysed
    /\ pc = "exit"
    /\ Len(data.features.v) = 3
    /\ analysis.properties.all_properties = << <<<<"a">>, 2>>, <<<<"b">>, 1>> >>

\* where key k is first met by the traversal of line 78: the first feature
\* holding it, and its position among that feature's items
FirstSeen(k) ==
    LET i == CHOOSE f \in FeaturesWith(k) : \A g \in FeaturesWith(k) : f <= g
        items == FeatureProperties(data.features.v[i]).v
    IN <<i, CHOOSE q \in 1..Len(items) : items[q][1] = k>>

SeenBefore(k1, k2) ==
    \/ FirstSeen(k1)[1] < FirstSeen(k2)[1]
    \/ FirstSeen(k1)[1] = FirstSeen(k2)[1] /\ FirstSeen(k1)[2] < FirstSeen(k2)[2]

\* C11: the property summary of the report lists the properties by
\* descending occurrence count, and of two properties with equal counts the
\* one the traversal met first comes first.
C11_RankedByCountStable ==
    (pc = "exit" /\ report.written) =>
        LET rows == report.property_rows
        IN /\ DKeys(rows) = UNION { Keys(FeatureProperties(data.features.v[i])) :
                                      i \in 1..Len(data.features.v) }
           /\ \A j, l \in 1..Len(rows) :
                  j < l =>
                      \/ rows[j][2] > rows[l][2]
                      \/ /\ rows[j][2] = rows[l][2]
                         /\ SeenBefore(rows[j][1], rows[l][1])

\* keys met in the order b, c, a; a occurs twice and is listed first, b and
\* c tie and keep their order
C11_Witness ==
    /\ pc = "exit" /\ report.written
    /\ Len(data.features.v) = 3
    /\ data.features.v[1].properties = JMap(<< <<<<"b">>, JStr(<<"x">>)>> >>)
    /\ report.property_rows = << <<<<"a">>, 2>>, <<<<"b">>, 1>>, <<<<"c">>, 1>> >>

----------------------------------------------------------------------------
(* _count_coordinates on its own *)

MaxCoordLen == 2

CoordLeaves == { JNum(7), JBool(TRUE), JStr(<<"x">>), JNull, JMap(<<>>) }

Position(x, y) == JList(<<JNum(x), JNum(y)>>)

\* positions, then lines of some positions, then rings of some lines
CoordPositions == { JList(s) : s \in SeqsUpTo(CoordLeaves, MaxCoordLen) }
CoordLines ==
    { JList(s) :
        s \in SeqsUpTo({ JList(<<>>), Position(1, 2), Position(3, 4),
                         JList(<<JNum(1), JBool(FALSE)>>),
                         JList(<<JNull, JStr(<<"x">>)>>),
                         JNum(0), JBool(TRUE), JStr(<<>>) }, MaxCoordLen) }
CoordRings ==
    { JList(s) :
        s \in SeqsUpTo({ JList(<<Position(1, 2), Position(3, 4)>>),
                         JList(<<Position(0, 0), Position(1, 0),
                                 Position(1, 1), Position(0, 0)>>),
                         JList(<<>>), JNum(5),
                         JMap(<< <<<<"a">>, JNum(1)>> >>) }, MaxCoordLen) }

CoordInputs == CoordLeaves \cup CoordPositions \cup CoordLines \cup CoordRings

InitCount ==
    /\ pc = "count"
    /\ exit_status = "running"
    /\ coords \in CoordInputs
    /\ coord_count = 0
    /\ NormalizeIdle /\ TraversalIdle /\ PathsIdle /\ CheckNamesIdle /\ ExtractorIdle /\ AnalyzerIdle /\ ResolveIdle
    /\ FileIdle

CountCoordinates ==
    /\ pc = "count"
    /\ coord_count' = count_coordinates(coords)
    /\ pc' = "counted"
    /\ UNCHANGED <<exit_status, coords, fileVars, normalizeVars, traversalVars, pathsVars, checkNamesVars,
                   extractorVars, analyzerVars, resolveVars>>

NextCount == CountCoordinates

SpecCount == InitCount /\ [][NextCount]_vars

\* the numeric leaves reachable through sequences only
RECURSIVE NumericLeaves(_)
NumericLeaves(c) ==
    IF c.t = "num" THEN 1
    ELSE IF c.t = "list"
         THEN SumSeq([i \in 1..Len(c.v) |-> NumericLeaves(c.v[i])])
         ELSE 0

\* C9: _count_coordinates returns the number of numeric leaves reachable
\* through sequences: a number counts 1, a sequence the sum over its
\* elements, anything else (string, boolean, null, mapping) 0; so
\* [[1,2],[3,4]] gives 4, [1,2] gives 2 and [] gives 0.
C9_CountsNumericLeaves ==
    pc = "counted" =>
        /\ coord_count = NumericLeaves(coords)
        /\ coords = JList(<<Position(1, 2), Position(3, 4)>>) => coord_count = 4
        /\ coords = Position(1, 2) => coord_count = 2
        /\ coords = JList(<<>>) => coord_count = 0

----------------------------------------------------------------------------
(* analyze_properties, one feature of the loop of line 78 at a time *)

MaxSampleFeatures == 6

SampleProperties ==
    { Absent, JNull,
      JMap(<< <<<<"a">>, JNum(1)>> >>),
      JMap(<< <<<<"a">>, JNum(2)>> >>),
      JMap(<< <<<<"a">>, JStr(<<"x">>)>>, <<<<"b">>, JNum(1)>> >>) }

SampleDocuments ==
    { Document(TRUE, JList(fs)) :
        fs \in SeqsUpTo({ Feature(p, Absent) : p \in SampleProperties },
                        MaxSampleFeatures) }

InitSamples ==
    /\ pc = "traverse"
    /\ exit_status = "running"
    /\ data \in SampleDocuments
    /\ geojson_file = Unused
    /\ run_result = Unused
    /\ aggregates = EmptyAggregates
    /\ visited = 0
    /\ analysis = InitialAnalysis
    /\ report = NoReport
    /\ NormalizeIdle /\ CheckNamesIdle /\ ExtractorIdle /\ CountIdle /\ ResolveIdle
    /\ PathsIdle

\* one pass of the loop of line 78, lines 79-102
VisitFeature ==
    /\ pc = "traverse"
    /\ visited < Len(data.features.v)
    /\ LET properties == FeatureProperties(data.features.v[visited + 1])
       IN IF ~IsDict(properties)                     \* AttributeError
          THEN /\ pc' = "exit" /\ exit_status' = "crash"
               /\ UNCHANGED <<aggregates, visited>>
          ELSE /\ aggregates' = ItemsLoop(properties.v, aggregates)
               /\ visited' = visited + 1
               /\ UNCHANGED <<pc, exit_status>>
    /\ UNCHANGED <<fileVars, analyzerVars, normalizeVars, checkNamesVars,
                   extractorVars, countVars, resolveVars, pathsVars>>

\* lines 104-109, once the loop is over
FinishProperties ==
    /\ pc = "traverse"
    /\ visited = Len(data.features.v)
    /\ analysis' = [analysis EXCEPT !.properties = PropertiesAnalysis(aggregates)]
    /\ pc' = "analysed"
    /\ UNCHANGED <<exit_status, fileVars, report, traversalVars, normalizeVars,
                   checkNamesVars, extractorVars, countVars, resolveVars, pathsVars>>

NextSamples == VisitFeature \/ FinishProperties

SpecSamples == InitSamples /\ [][NextSamples]_vars

----------------------------------------------------------------------------
(* Claim about the sample lists *)

\* the features among the first n that carry key k
CarriersUpTo(k, n) ==
    { i \in 1..n : k \in Keys(FeatureProperties(data.features.v[i])) }

\* the j-th of them, in feature order
NthCarrier(k, n, j) ==
    CHOOSE i \in CarriersUpTo(k, n) :
        Cardinality({ e \in CarriersUpTo(k, n) : e < i }) = j - 1

StringifiedAt(k, i) == PyStr(Get(FeatureProperties(data.features.v[i]), k))

\* the stringified values of the first min(5, n) carriers of k
FirstFiveSamples(k, n) ==
    LET count == Cardinality(CarriersUpTo(k, n))
    IN [j \in 1..(IF count < 5 THEN count ELSE 5) |->
            StringifiedAt(k, NthCarrier(k, n, j))]

KeysUpTo(n) ==
    UNION { Keys(FeatureProperties(data.features.v[i])) : i \in 1..n }

\* C12: the sample list of each key is the stringified values of the first
\* min(5, n) features carrying the key, in feature order; it never holds
\* more than 5 entries during the traversal; and the values of later
\* occurrences still count toward the distinct-value cardinality.
C12_SampleListCapped ==
    /\ pc = "traverse" =>
          /\ DKeys(aggregates.property_values) = KeysUpTo(visited)
          /\ \A k \in KeysUpTo(visited) :
                /\ Len(DGet(aggregates.property_values, k)) <= 5
                /\ DGet(aggregates.property_values, k) = FirstFiveSamples(k, visited)
    /\ pc = "analysed" =>
          LET n == Len(data.features.v)
              p == analysis.properties
          IN /\ DKeys(p.sample_values) = KeysUpTo(n)
             /\ \A k \in KeysUpTo(n) :
                   /\ DGet(p.sample_values, k) = FirstFiveSamples(k, n)
                   /\ DGet(p.all_properties, k) = Cardinality(CarriersUpTo(k, n))
                   /\ DGet(p.unique_value_counts, k)
                         = Cardinality({ StringifiedAt(k, i) : i \in CarriersUpTo(k, n) })

\* six features carry key a, the sixth with a value the first five lack
C12_Witness ==
    /\ pc = "analysed"
    /\ Len(data.features.v) = 6
    /\ data.features.v[6].properties = JMap(<< <<<<"a">>, JNum(2)>> >>)
    /\ DGet(analysis.properties.all_properties, <<"a">>) = 6
    /\ DGet(analysis.properties.sample_values, <<"a">>)
           = << <<"1">>, <<"1">>, <<"1">>, <<"1">>, <<"1">> >>
    /\ DGet(analysis.properties.unique_value_counts, <<"a">>) = 2

----------------------------------------------------------------------------
(* Nested Path Extractor: path discovery *)

\* "analyze first 3 features", line 135
FirstFeatures == 3
\* max_depth of _find_nested_paths, line 143
MaxDiscoveryDepth == 3

\* f"Feature {i+1}", line 139; i here counts from 1
FeatureLabel(i) == <<"F", "e", "a", "t", "u", "r", "e", " ">> \o IntStr(i)

\* f"<nested object with {len(value)} keys>", line 163
NestedPlaceholder(value) ==
    <<"<", "n", "e", "s", "t", "e", "d", " ", "o", "b", "j", "e", "c", "t", " ",
      "w", "i", "t", "h", " ">> \o IntStr(Len(value.v))
        \o <<" ", "k", "e", "y", "s", ">">>

\* paths[path].append(sample), after "if path not in paths: paths[path] = []"
AppendSample(paths, p, sample) ==
    DSet(paths, p, (IF DHas(paths, p) THEN DGet(paths, p) ELSE <<>>) \o <<sample>>)

\* _find_nested_paths, lines 143-171; FindInItems is its loop of line 156
RECURSIVE find_nested_paths(_, _, _, _)
RECURSIVE FindInItems(_, _, _, _)
find_nested_paths(o, current_path, paths, max_depth) ==
    IF max_depth <= 0 \/ ~IsDict(o) THEN paths
    ELSE FindInItems(o.v, current_path, paths, max_depth)

FindInItems(items, current_path, paths, max_depth) ==
    IF items = <<>> THEN paths
    ELSE LET key == items[1][1]
             value == items[1][2]
             p == IF current_path # <<>> THEN current_path \o <<".">> \o key ELSE key
         IN FindInItems(Tail(items), current_path,
                IF IsDict(value)
                THEN find_nested_paths(value, p,
                         AppendSample(paths, p, NestedPlaceholder(value)),
                         max_depth - 1)
                ELSE AppendSample(paths, p, PyStr(value)),
                max_depth)

\* the loop of lines 137-139 over features[:3], i counting from 1
RECURSIVE DiscoveryLoop(_, _, _)
DiscoveryLoop(features, i, paths) ==
    IF i > Len(features) \/ i > FirstFeatures THEN paths
    ELSE DiscoveryLoop(features, i + 1,
            find_nested_paths(FeatureProperties(features[i]), FeatureLabel(i),
                              paths, MaxDiscoveryDepth))

\* lines 124-141
analyze_available_paths(doc) ==
    IF IsEmptyDict(doc) \/ ~HasFeatures(doc) THEN <<>>
    ELSE DiscoveryLoop(doc.features.v, 1, <<>>)

MaxPathFeatures == 4

DiscoveryProperties ==
    { Absent, JNull,
      JMap(<< <<<<"a">>, JNum(1)>> >>),
      JMap(<< <<<<"a">>, JMap(<< <<<<"b">>, JStr(<<"x">>)>> >>)>>,
              <<<<"b">>, JNull>> >>),
      JMap(<< <<<<"a">>,
                JMap(<< <<<<"b">>,
                          JMap(<< <<<<"a">>,
                                    JMap(<< <<<<"b">>, JNum(1)>> >>)>> >>)>> >>)>> >>),
      JMap(<< <<<<>>, JMap(<< <<<<>>, JNum(2)>> >>)>> >>) }

DiscoveryDocuments ==
    { Document(TRUE, JList(fs)) :
        fs \in SeqsUpTo({ Feature(p, Absent) : p \in DiscoveryProperties },
                        MaxPathFeatures) }
        \cup { Document(TRUE, Absent), Document(FALSE, Absent) }

InitPaths ==
    /\ pc = "discover"
    /\ exit_status = "running"
    /\ data \in DiscoveryDocuments
    /\ geojson_file = Unused
    /\ run_result = Unused
    /\ available_paths = <<>>
    /\ NormalizeIdle /\ CheckNamesIdle /\ ExtractorIdle /\ AnalyzerIdle /\ CountIdle
    /\ ResolveIdle /\ TraversalIdle

\* run, line 193
AnalyzeAvailablePaths ==
    /\ pc = "discover"
    /\ available_paths' = analyze_available_paths(data)
    /\ pc' = "discovered"
    /\ UNCHANGED <<exit_status, fileVars, normalizeVars, traversalVars, checkNamesVars,
                   extractorVars, analyzerVars, countVars, resolveVars>>

NextPaths == AnalyzeAvailablePaths

SpecPaths == InitPaths /\ [][NextPaths]_vars

----------------------------------------------------------------------------
(* Claim about path discovery *)

\* the addresses of 1 to depth segments reachable through nested mappings
RECURSIVE Addresses(_, _)
Addresses(o, depth) ==
    IF depth = 0 \/ ~IsDict(o) THEN {}
    ELSE UNION { {o.v[i][1]}
                    \cup { o.v[i][1] \o <<".">> \o rest :
                             rest \in Addresses(o.v[i][2], depth - 1) } :
                 i \in 1..Len(o.v) }

InspectedFeatures ==
    IF HasFeatures(data)
    THEN { i \in 1..Len(data.features.v) : i <= 3 }
    ELSE {}

\* C13: analyze_available_paths inspects only the first 3 features, and the
\* keys of the mapping it returns are exactly the addresses of 1 to 3
\* segments reachable through nested mappings in those features' properties,
\* each of them resolvable by get_nested_value against such a feature.
C13_KeysAreReachableAddresses ==
    pc = "discovered" =>
        /\ DKeys(available_paths)
              = UNION { Addresses(FeatureProperties(data.features.v[i]), 3) :
                          i \in InspectedFeatures }
        /\ \A p \in DKeys(available_paths) :
              \E i \in InspectedFeatures :
                  \/ get_nested_value(FeatureProperties(data.features.v[i]), p) # JNull
                  \/ <<PyStr(JNull)>> = DGet(available_paths, p)

====
